---- MODULE Spec2Model ----
(***************************************************************************)
(* PostgresSubclient (cvpysdk/subclients/postgressubclient.py): the        *)
(* content property, the backup facade, the property documents and         *)
(* restore_postgres_server, with the collaborators they call.              *)
(*                                                                         *)
(* Python values are tagged records: None, str (a tuple of characters, so  *)
(* that lower() and lstrip() work on characters), int, list and dict.      *)
(***************************************************************************)
EXTENDS Integers, Sequences, FiniteSets, TLC

\* ---------------------------------------------------------------- bounds
MaxEntries == 2
MaxRestores == 2

\* ------------------------------------------------------- Python values
NoneV == [t |-> "none"]
StrV(s) == [t |-> "str", s |-> s]
IntV(n) == [t |-> "int", n |-> n]
ListV(l) == [t |-> "list", l |-> l]
DictV(d) == [t |-> "dict", d |-> d]
EmptyMap == [k \in {} |-> NoneV]

IsNone(v) == v.t = "none"

\* bool(v)
Truthy(v) ==
    CASE v.t = "none" -> FALSE
      [] v.t = "str"  -> Len(v.s) > 0
      [] v.t = "int"  -> v.n # 0
      [] v.t = "list" -> Len(v.l) > 0
      [] v.t = "dict" -> DOMAIN v.d # {}

\* only a dict has .get; on anything else the attribute lookup raises
HasGet(v) == v.t = "dict"
\* dict.get(k): the value under k, None when the key is absent
Get(v, k) == IF k \in DOMAIN v.d THEN v.d[k] ELSE NoneV

\* only a str has .lstrip
HasLStrip(v) == v.t = "str"

\* ------------------------------------------------------------- strings
UpperChars == <<"A","B","C","D","E","F","G","H","I","J","K","L","M",
                "N","O","P","Q","R","S","T","U","V","W","X","Y","Z">>
LowerChars == <<"a","b","c","d","e","f","g","h","i","j","k","l","m",
                "n","o","p","q","r","s","t","u","v","w","x","y","z">>
DigitChars == <<"0","1","2","3","4","5","6","7","8","9">>

LowerChar(c) ==
    IF \E i \in DOMAIN UpperChars : UpperChars[i] = c
    THEN LowerChars[CHOOSE i \in DOMAIN UpperChars : UpperChars[i] = c]
    ELSE c

\* str.lower()
LowerIdentity(s) == s
Lower(s) == [i \in DOMAIN s |-> LowerChar(s[i])]

\* str.lstrip("/"): every leading slash goes
LStripOnce(s) == IF Len(s) > 0 /\ s[1] = "/" THEN Tail(s) ELSE s
RECURSIVE LStrip(_)
LStrip(s) == IF Len(s) > 0 /\ s[1] = "/" THEN LStrip(Tail(s)) ELSE s

\* str(n) for n >= 0
RECURSIVE DigitsOf(_)
DigitsOf(n) == IF n < 10 THEN <<DigitChars[n + 1]>>
               ELSE Append(DigitsOf(n \div 10), DigitChars[(n % 10) + 1])

\* str(v) as _backup_request_json applies it to the prefix
StrOf(v) ==
    CASE v.t = "str"  -> v.s
      [] v.t = "int"  -> DigitsOf(v.n)
      [] v.t = "none" -> <<"N","o","n","e">>

\* ------------------------------------------------------------ outcomes
Return(v) == [kind |-> "return", v |-> v]
Raise(e) == [kind |-> "raise", exc |-> e]

\* --------------------------------------------------- content (property)
\* the body of the for loop, lines 80-83, for one element of _content:
\* "skip", "raise", or the name to append
EntryStep(database) ==
    IF ~HasGet(database) THEN [act |-> "raise"]
    ELSE LET pg == Get(database, "postgreSQLContent") IN
         IF ~Truthy(pg) THEN [act |-> "skip"]
         ELSE IF ~HasGet(pg) THEN [act |-> "raise"]
         ELSE LET name == Get(pg, "databaseName") IN
              IF ~Truthy(name) THEN [act |-> "skip"]
              ELSE IF ~HasLStrip(name) THEN [act |-> "raise"]
              ELSE [act |-> "append", name |-> StrV(LStrip(name.s))]

\* the for loop, lines 78-84: the list built so far, or the exception
RECURSIVE ScanContent(_, _)
ScanContent(entries, database_list) ==
    IF entries = <<>> THEN Return(ListV(database_list))
    ELSE LET step == EntryStep(Head(entries)) IN
         CASE step.act = "raise"  -> Raise("AttributeError")
           [] step.act = "skip"   -> ScanContent(Tail(entries), database_list)
           [] step.act = "append" ->
                ScanContent(Tail(entries), Append(database_list, step.name))

\* lines 73-76: the value the getter stores in self._content
ContentField(is_default, props) ==
    IF ~is_default /\ "content" \in DOMAIN props
    THEN props["content"] ELSE NoneV

\* lines 77-84: what the getter hands back (None when _content is None)
ContentResult(c) ==
    IF IsNone(c) THEN Return(NoneV) ELSE ScanContent(c.l, <<>>)

\* ------------------------------------------------------------- state
VARIABLES
    is_default_subclient,    \* the subclient is its backupset's default one
    _subclient_properties,   \* the property cache: key -> value
    _content,
    _postgres_properties,
    _subClientEntity,
    backupset_name,          \* self._backupset_object.backupset_name
    _restore_association,    \* field of the owning instance object
    last,                    \* the call made last: arguments and outcome
    built,                   \* documents _backup_request_json built in it
    transport,               \* make_request calls this class made in it
    base_calls,              \* calls of the base class backup() in it
    restore_calls,           \* calls of instance.restore_in_place in it
    pc,                      \* concurrent callers: position of each
    args,                    \* concurrent callers: resolved arguments
    done                     \* concurrent callers: restores completed

cache == <<is_default_subclient, _subclient_properties, _content,
           _postgres_properties, _subClientEntity>>
sites == <<backupset_name, _restore_association>>
trace == <<last, built, transport, base_calls, restore_calls>>
threads == <<pc, args, done>>
vars == <<cache, sites, trace, threads>>

\* strings the model uses
S_a == <<"/", "a">>
S_b == <<"/", "/", "b">>
S_empty == <<>>
S_entity1 == <<"s", "c", "1">>
S_entity2 == <<"s", "c", "2">>
S_client == <<"c", "l", "i", "e", "n", "t", "1">>
S_instance == <<"p", "g", "1">>
S_content == "content"
S_pgprop == "postgreSQLSubclientProp"

\* ------------------------------------------- server payloads (content)
NamedEntry(name) ==
    DictV("postgreSQLContent" :> DictV("databaseName" :> name))

\* entries that the loop appends or skips
EntryKinds ==
    { NamedEntry(StrV(S_a)),              \* "/a"
      NamedEntry(StrV(S_b)),              \* "//b"
      NamedEntry(StrV(S_empty)),          \* a name that is the empty string
      DictV(EmptyMap) }                   \* no postgreSQLContent key

\* further entries a payload can hold
OddEntryKinds ==
    { DictV("postgreSQLContent" :> NoneV),
      DictV("postgreSQLContent" :> DictV(EmptyMap)),
      DictV("postgreSQLContent" :> StrV(S_a)),   \* not a mapping
      NamedEntry(IntV(5)),                \* a name that is not a string
      StrV(S_a) }                         \* the entry is not a mapping

RawContents ==
    {NoneV}
    \cup { ListV(l) :
             l \in UNION { [1..n -> EntryKinds] : n \in 0..MaxEntries } }
    \cup { ListV(<<NamedEntry(StrV(S_a)), e, NamedEntry(StrV(S_b))>>) :
             e \in OddEntryKinds }

\* what the server answers to the property fetch
ServerPayloads ==
    { S_content :> c : c \in RawContents }
    \cup { EmptyMap,
           S_pgprop :> DictV("x" :> IntV(1)),
           (S_content :> ListV(<<NamedEntry(StrV(S_a))>>))
               @@ (S_pgprop :> DictV("x" :> IntV(1))) }

\* ------------------------------------- _get_subclient_properties (115)
\* lines 120-121: the PostgreSQL key is created empty when missing
WithPostgresKey(props) ==
    IF S_pgprop \notin DOMAIN props
    THEN props @@ (S_pgprop :> DictV(EmptyMap)) ELSE props

\* ------------------------------- _get_subclient_properties_json (124)
SubclientPropertiesJson ==
    [subClientProperties |->
        [postgreSQLSubclientProp |-> _postgres_properties,
         impersonateUser |-> NoneV,
         proxyClient |-> NoneV,
         subClientEntity |-> _subClientEntity,
         content |-> _content,
         commonProperties |-> NoneV,
         contentOperationType |-> 1]]

NoTrace ==
    /\ built' = <<>>
    /\ transport' = <<>>
    /\ base_calls' = <<>>
    /\ restore_calls' = <<>>

\* _get_subclient_properties(): the base class fetches the properties,
\* lines 120-122 add the PostgreSQL key and alias _postgres_properties
Refresh(payloads) ==
    /\ \E payload \in payloads :
         /\ _subclient_properties' = WithPostgresKey(payload)
         /\ _postgres_properties' = WithPostgresKey(payload)[S_pgprop]
    /\ last' = [op |-> "refresh"]
    /\ NoTrace
    /\ UNCHANGED <<is_default_subclient, _content, _subClientEntity,
                   sites, threads>>

\* reading the content property, lines 70-84
ReadContent ==
    /\ _content' = ContentField(is_default_subclient, _subclient_properties)
    /\ last' = [op |-> "content",
                outcome |-> ContentResult(_content')]
    /\ NoTrace
    /\ UNCHANGED <<is_default_subclient, _subclient_properties,
                   _postgres_properties, _subClientEntity, sites, threads>>

\* calling _get_subclient_properties_json, lines 124-143
GetPropertiesJson ==
    /\ last' = [op |-> "json", outcome |-> Return(SubclientPropertiesJson)]
    /\ NoTrace
    /\ UNCHANGED <<cache, sites, threads>>

\* after construction: nothing fetched yet, line 64 for _postgres_properties
InitObject ==
    /\ is_default_subclient \in BOOLEAN
    /\ _subclient_properties = EmptyMap
    /\ _content = NoneV
    /\ _postgres_properties = DictV(EmptyMap)
    /\ _subClientEntity = StrV(S_entity1)
    /\ _restore_association = NoneV
    /\ last = [op |-> "init"]
    /\ built = <<>>
    /\ transport = <<>>
    /\ base_calls = <<>>
    /\ restore_calls = <<>>

\* no concurrent callers
OneCaller ==
    /\ pc = <<>>
    /\ args = <<>>
    /\ done = <<>>

\* --------------------------------------------------------- backup (145)
S_full == <<"f","u","l","l">>
S_incremental == <<"i","n","c","r","e","m","e","n","t","a","l">>
S_differential == <<"d","i","f","f","e","r","e","n","t","i","a","l">>
S_before_synth == <<"B","E","F","O","R","E","_","S","Y","N","T","H">>

\* line 172
NormalizeLevel(backup_level) == Lower(backup_level)

\* line 174
BackupLevels == {S_full, S_incremental, S_differential}
IsBackupLevel(backup_level) == backup_level \in BackupLevels

\* line 175
InvalidBackupLevel == Raise([module |-> "Subclient", id |-> "103"])

\* line 177: the base class path is taken when no prefix was given
TakesBasePathFalsy(backup_prefix) == ~Truthy(backup_prefix)
TakesBasePathInverted(backup_prefix) == ~IsNone(backup_prefix)
TakesBasePath(backup_prefix) == IsNone(backup_prefix)

\* line 178: the arguments of the base class backup()
BaseBackupCall(backup_level) == [backup_level |-> backup_level]

\* Subclient._backup_json(level, incremental_backup, incremental_level):
\* the generic envelope, one subtask whose options carry the backup options
BackupJson(backup_level, incremental_backup, incremental_level) ==
    [taskInfo |->
        [associations |-> <<_subClientEntity>>,
         subTasks |->
            << [subTask |-> [subTaskType |-> 2, operationType |-> 2],
                options |->
                   [backupOpts |->
                        ("backupLevel" :> StrV(backup_level))
                     @@ ("runIncrementalBackup" :>
                            IntV(IF incremental_backup THEN 1 ELSE 0))
                     @@ ("incLevel" :> StrV(incremental_level))]] >>]]

\* dict.update(other): the keys of other are set, the rest is kept
Update(d, other) == other @@ d

\* lines 104-108
HanaOptions(backup_prefix) ==
    "hanaOptions" :> DictV("backupPrefix" :> StrV(StrOf(backup_prefix)))

\* the envelope with the backup options of its first subtask replaced
WithBackupOpts(request_json, opts) ==
    [request_json EXCEPT !.taskInfo.subTasks[1].options.backupOpts = opts]

\* _backup_request_json(backup_level, backup_prefix), lines 103-113
BackupRequestJson(backup_level, backup_prefix) ==
    LET request_json == BackupJson(backup_level, FALSE, S_before_synth) IN
    WithBackupOpts(request_json,
        Update(request_json.taskInfo.subTasks[1].options.backupOpts,
               HanaOptions(backup_prefix)))

\* lines 181-183: the make_request calls made for one document
CreateTaskRetry(request_json) ==
    << [method |-> "POST", endpoint |-> "CREATE_TASK", body |-> request_json],
       [method |-> "POST", endpoint |-> "CREATE_TASK", body |-> request_json] >>
CreateTask(request_json) ==
    << [method |-> "POST", endpoint |-> "CREATE_TASK", body |-> request_json] >>

\* what make_request can answer: (flag, response)
Responses ==
    { [flag |-> TRUE, response |-> DictV("jobIds" :> IntV(7))],
      [flag |-> TRUE, response |-> DictV(EmptyMap)],
      [flag |-> FALSE, response |-> StrV(<<"5","0","0">>)] }

EmptyResponse == Raise([module |-> "Response", id |-> "102"])
RequestFailure == Raise([module |-> "Response", id |-> "101"])

\* Subclient._process_backup_response(flag, response)
ProcessBackupResponse(flag, response) ==
    IF ~flag THEN RequestFailure
    ELSE IF ~Truthy(response) THEN EmptyResponse
    ELSE Return([job |-> response.d["jobIds"]])

\* what the base class backup(level) can end in
BaseBackupOutcomes ==
    { Return([job |-> IntV(9)]), EmptyResponse, RequestFailure }

\* line 184
BackupResult(processed) == processed

\* the levels and prefixes backup() is called with
LevelInputs ==
    { S_full,
      <<"F","u","l","l">>,
      <<"I","n","c","r","e","m","e","n","t","a","l">>,
      <<"D","I","F","F","E","R","E","N","T","I","A","L">>,
      S_differential,
      <<"t","r","a","n","s","a","c","t","i","o","n">>,
      <<>> }

PrefixInputs ==
    { NoneV,
      StrV(<<"n","i","g","h","t","l","y">>),
      StrV(<<>>),
      IntV(0),
      IntV(12) }

\* backup(backup_level, backup_prefix), lines 172-184
Backup ==
    \E backup_level \in LevelInputs, backup_prefix \in PrefixInputs :
        LET level == NormalizeLevel(backup_level)
            request_json == BackupRequestJson(level, backup_prefix)
            call == [op |-> "backup", backup_level |-> backup_level,
                     backup_prefix |-> backup_prefix]
        IN
        /\ IF ~IsBackupLevel(level)
           THEN /\ last' = call @@ [outcome |-> InvalidBackupLevel]
                /\ built' = <<>>
                /\ transport' = <<>>
                /\ base_calls' = <<>>
           ELSE IF TakesBasePath(backup_prefix)
           THEN /\ base_calls' = <<BaseBackupCall(level)>>
                /\ \E base \in BaseBackupOutcomes :
                     last' = call @@ [outcome |-> base, base |-> base]
                /\ built' = <<>>
                /\ transport' = <<>>
           ELSE /\ built' = <<request_json>>
                /\ transport' = CreateTask(request_json)
                /\ \E answer \in Responses :
                     last' = call @@
                       [outcome |-> BackupResult(
                          ProcessBackupResponse(answer.flag, answer.response)),
                        answer |-> answer]
                /\ base_calls' = <<>>
        /\ restore_calls' = <<>>
        /\ UNCHANGED <<cache, sites, threads>>

\* ------------------------------------------ restore_postgres_server (186)
S_fsbased == <<"f","s","b","a","s","e","d","b","a","c","k","u","p","s","e","t">>
S_data == <<"/","d","a","t","a">>
S_mydb == <<"m","y","d","b">>
S_other == <<"x","2">>

\* instance_object._agent_object._client_object.client_name, line 246
client_name == StrV(S_client)
\* instance_object.instance_name, line 249
instance_name == StrV(S_instance)

\* lines 245-246
DestClientFalsy(dest_client_name) ==
    IF ~Truthy(dest_client_name) THEN client_name ELSE dest_client_name
DestClient(dest_client_name) ==
    IF IsNone(dest_client_name) THEN client_name ELSE dest_client_name

\* lines 248-249
DestInstance(dest_instance_name) ==
    IF IsNone(dest_instance_name) THEN instance_name ELSE dest_instance_name

\* line 253
IsFsBasedExact(name) == name = S_fsbased
IsFsBased(name) == Lower(name) = S_fsbased

\* lines 253-257
BackupsetFlag(name) == IsFsBased(name)
DatabaseList(name, database_list) ==
    IF IsFsBased(name) THEN ListV(<<StrV(S_data)>>) ELSE database_list

\* line 259: the value stored in instance_object._restore_association
AssociationStale(entity, old) == old
Association(entity, old) == entity

\* lines 260-270: the arguments restore_in_place is called with
RestoreInPlaceCall(database_list, dest_client_name, dest_instance_name, name, passed) ==
    [database_list |-> DatabaseList(name, database_list),
     dest_client_name |-> DestClient(dest_client_name),
     dest_instance_name |-> DestInstance(dest_instance_name),
     backupset_name |-> StrV(name),
     backupset_flag |-> BackupsetFlag(name),
     copy_precedence |-> passed.copy_precedence,
     from_time |-> passed.from_time,
     to_time |-> passed.to_time,
     clone_env |-> passed.clone_env,
     clone_options |-> passed.clone_options]

\* the defaults of the signature, lines 188-195
RestoreDefaults ==
    [copy_precedence |-> NoneV, from_time |-> NoneV, to_time |-> NoneV,
     clone_env |-> FALSE, clone_options |-> NoneV]

\* what the callers pass for the arguments that are handed through
PassedInputs ==
    { RestoreDefaults,
      [copy_precedence |-> IntV(2),
       from_time |-> StrV(<<"t","1">>), to_time |-> StrV(<<"t","2">>),
       clone_env |-> TRUE,
       clone_options |-> DictV("port" :> StrV(<<"5","5","9","5">>))] }

DatabaseListInputs == { NoneV, ListV(<<StrV(S_mydb)>>) }
DestInputs == { NoneV, StrV(<<>>), StrV(S_other) }

\* what instance.restore_in_place can end in
RestoreOutcomes == { Return([job |-> IntV(11)]), RequestFailure }

\* restore_postgres_server(...), lines 243-270, by one caller at a time
RestorePostgresServer ==
    \E database_list \in DatabaseListInputs,
       dest_client_name \in DestInputs, dest_instance_name \in DestInputs,
       passed \in PassedInputs, outcome \in RestoreOutcomes :
        /\ _restore_association' =
               Association(_subClientEntity, _restore_association)
        /\ restore_calls' =
             << RestoreInPlaceCall(database_list, dest_client_name,
                                   dest_instance_name, backupset_name, passed)
                @@ [association |-> _restore_association'] >>
        /\ last' = [op |-> "restore", database_list |-> database_list,
                    dest_client_name |-> dest_client_name,
                    dest_instance_name |-> dest_instance_name,
                    passed |-> passed, outcome |-> outcome]
        /\ built' = <<>>
        /\ transport' = <<>>
        /\ base_calls' = <<>>
        /\ UNCHANGED <<cache, backupset_name, threads>>

\* ---------------------------------------- the property cache on its own
InitContent ==
    /\ InitObject
    /\ OneCaller
    /\ backupset_name = S_instance

RefreshAny == Refresh(ServerPayloads)

NextContent == RefreshAny \/ ReadContent \/ GetPropertiesJson

SpecContent == InitContent /\ [][NextContent]_vars

\* ------------------------------------------------ properties: content
\* the raw structure a read of content looks at, when there is one
HasRawList ==
    /\ ~is_default_subclient
    /\ S_content \in DOMAIN _subclient_properties
    /\ _subclient_properties[S_content].t = "list"
RawEntries == _subclient_properties[S_content].l

HasNameField(e) ==
    /\ e.t = "dict"
    /\ "postgreSQLContent" \in DOMAIN e.d
    /\ e.d["postgreSQLContent"].t = "dict"
    /\ "databaseName" \in DOMAIN e.d["postgreSQLContent"].d
NameOf(e) == e.d["postgreSQLContent"].d["databaseName"]

\* a database name that is a string, possibly the empty one
NonNullName(e) == HasNameField(e) /\ NameOf(e).t = "str"
\* a database name that is a string of at least one character
NonEmptyName(e) == NonNullName(e) /\ Len(NameOf(e).s) > 0

\* r is s without its leading slashes
IsStripOf(r, s) ==
    \E k \in 0..Len(s) :
        /\ r = SubSeq(s, k + 1, Len(s))
        /\ \A i \in 1..k : s[i] = "/"
        /\ Len(r) > 0 => r[1] # "/"

OneNamePerEntry ==
    /\ last.outcome.kind = "return"
    /\ last.outcome.v.t = "list"
    /\ Len(last.outcome.v.l) = Len(RawEntries)
    /\ \A i \in 1..Len(RawEntries) :
          /\ last.outcome.v.l[i].t = "str"
          /\ IsStripOf(last.outcome.v.l[i].s, NameOf(RawEntries[i]).s)

\* C6 (as stated): on a non-default subclient whose raw content holds N
\* entries that each carry a non-null database name, a read of content
\* returns N names, entry by entry, each without its leading slashes.
C6_NonNullNames ==
    (last.op = "content" /\ HasRawList
        /\ \A i \in 1..Len(RawEntries) : NonNullName(RawEntries[i]))
    => OneNamePerEntry

\* C6 (amended): the same for N entries that each carry a non-empty
\* database name; an entry whose name is the empty string is left out.
C6_NonEmptyNames ==
    (last.op = "content" /\ HasRawList
        /\ \A i \in 1..Len(RawEntries) : NonEmptyName(RawEntries[i]))
    => OneNamePerEntry

\* a read over two entries with different names, both returned
C6_Witness ==
    /\ last.op = "content" /\ HasRawList
    /\ Len(RawEntries) >= 2
    /\ \A i \in 1..Len(RawEntries) : NonEmptyName(RawEntries[i])
    /\ NameOf(RawEntries[1]) # NameOf(RawEntries[2])
    /\ last.outcome.kind = "return"
    /\ Len(last.outcome.v.l) = Len(RawEntries)
    /\ last.outcome.v.l[1] # last.outcome.v.l[2]

\* the names of the entries that carry a non-empty name, in order
RECURSIVE UsableNames(_)
UsableNames(entries) ==
    IF entries = <<>> THEN <<>>
    ELSE IF NonEmptyName(Head(entries))
         THEN <<NameOf(Head(entries))>> \o UsableNames(Tail(entries))
         ELSE UsableNames(Tail(entries))

\* C7: a read of content never raises; malformed entries are left out and
\* the well-formed ones around them are returned in order.
C7_NeverRaises ==
    (last.op = "content" /\ HasRawList)
    => /\ last.outcome.kind = "return"
       /\ last.outcome.v.t = "list"
       /\ Len(last.outcome.v.l) = Len(UsableNames(RawEntries))
       /\ \A i \in 1..Len(last.outcome.v.l) :
             IsStripOf(last.outcome.v.l[i].s, UsableNames(RawEntries)[i].s)

\* C8: a read of content changes no field of the subclient, and the
\* document of _get_subclient_properties_json is the same before and after.
C8_ReadIsPure ==
    [][last'.op = "content"
        => /\ cache' = cache
           /\ SubclientPropertiesJson' = SubclientPropertiesJson]_vars

\* ------------------------------------------- one subclient, one caller
BackupsetNames ==
    { S_fsbased,
      <<"F","S","B","a","s","e","d","B","a","c","k","u","p","S","e","t">>,
      <<"d","e","f","a","u","l","t">> }

\* the payloads the one-caller specification refreshes from
FewPayloads ==
    { EmptyMap,
      (S_content :> ListV(<<NamedEntry(StrV(S_a))>>))
          @@ (S_pgprop :> DictV("x" :> IntV(1))) }

Init ==
    /\ InitObject
    /\ OneCaller
    /\ backupset_name \in BackupsetNames

RefreshFew == Refresh(FewPayloads)

Next ==
    \/ RefreshFew
    \/ ReadContent
    \/ GetPropertiesJson
    \/ Backup
    \/ RestorePostgresServer

Spec == Init /\ [][Next]_vars

\* ------------------------------------------------- properties: backup
SameLetter(c, d) ==
    \/ c = d
    \/ \E i \in DOMAIN UpperChars : {c, d} = {UpperChars[i], LowerChars[i]}

\* s and t are equal up to the case of their letters
SameIgnoringCase(s, t) ==
    /\ Len(s) = Len(t)
    /\ \A i \in 1..Len(s) : SameLetter(s[i], t[i])

RecognisedLevels == {S_full, S_incremental, S_differential}
IsRecognised(backup_level) ==
    \E v \in RecognisedLevels : SameIgnoringCase(backup_level, v)
LevelOf(backup_level) ==
    CHOOSE v \in RecognisedLevels : SameIgnoringCase(backup_level, v)

\* C1: a level that is full, incremental or differential up to case gets
\* past validation; any other string ends in Subclient/103 with no
\* transport request, no document built and no base class backup call.
C1_LevelValidation ==
    last.op = "backup" =>
        IF IsRecognised(last.backup_level)
        THEN /\ last.outcome # InvalidBackupLevel
             /\ Len(base_calls) + Len(transport) >= 1
        ELSE /\ last.outcome = InvalidBackupLevel
             /\ transport = <<>>
             /\ built = <<>>
             /\ base_calls = <<>>

C1_Witness ==
    /\ last.op = "backup"
    /\ ~IsRecognised(last.backup_level)
    /\ Len(last.backup_level) > 0
    /\ ~IsNone(last.backup_prefix)
    /\ last.outcome = InvalidBackupLevel

RECURSIVE DecimalValue(_)
DecimalValue(r) ==
    IF r = <<>> THEN 0
    ELSE 10 * DecimalValue(SubSeq(r, 1, Len(r) - 1))
         + (CHOOSE k \in 0..9 : DigitChars[k + 1] = r[Len(r)])

\* r is str(p)
IsStrOf(r, p) ==
    IF p.t = "str" THEN r = p.s
    ELSE /\ p.t = "int"
         /\ Len(r) >= 1
         /\ \A i \in 1..Len(r) : \E k \in 1..10 : DigitChars[k] = r[i]
         /\ Len(r) > 1 => r[1] # "0"
         /\ DecimalValue(r) = p.n

OptsOf(request_json) == request_json.taskInfo.subTasks[1].options.backupOpts

IsPrefixedCall ==
    /\ last.op = "backup"
    /\ IsRecognised(last.backup_level)
    /\ ~IsNone(last.backup_prefix)

\* C2: with a valid level and a prefix that is not None (the empty string
\* included) one document is built and posted once to CREATE_TASK: the
\* generic envelope of the lowercased level, False and "BEFORE_SYNTH",
\* whose backup options gained the block carrying str(prefix) and kept
\* every other key.
C2_PrefixedRequest ==
    IsPrefixedCall =>
        LET generic ==
                BackupJson(LevelOf(last.backup_level), FALSE, S_before_synth)
        IN
        /\ Len(built) = 1
        /\ transport = << [method |-> "POST", endpoint |-> "CREATE_TASK",
                           body |-> built[1]] >>
        /\ DOMAIN OptsOf(built[1]) = DOMAIN OptsOf(generic) \cup {"hanaOptions"}
        /\ OptsOf(built[1])["hanaOptions"].t = "dict"
        /\ DOMAIN OptsOf(built[1])["hanaOptions"].d = {"backupPrefix"}
        /\ OptsOf(built[1])["hanaOptions"].d["backupPrefix"].t = "str"
        /\ IsStrOf(OptsOf(built[1])["hanaOptions"].d["backupPrefix"].s,
                   last.backup_prefix)
        /\ \A k \in DOMAIN OptsOf(generic) \ {"hanaOptions"} :
              OptsOf(built[1])[k] = OptsOf(generic)[k]
        /\ WithBackupOpts(built[1], OptsOf(generic)) = generic

\* a prefixed backup whose prefix is the empty string
C2_Witness ==
    /\ IsPrefixedCall
    /\ last.backup_prefix = StrV(<<>>)
    /\ last.backup_level # LevelOf(last.backup_level)
    /\ Len(built) = 1
    /\ Len(transport) = 1

\* C3: with a valid level and no prefix the call goes to the base class
\* backup with the lowercased level alone and returns its result; no
\* prefixed document is built and make_request is not called here.
C3_NoPrefixDelegates ==
    (last.op = "backup" /\ IsRecognised(last.backup_level)
        /\ IsNone(last.backup_prefix))
    => /\ base_calls = << [backup_level |-> LevelOf(last.backup_level)] >>
       /\ built = <<>>
       /\ transport = <<>>
       /\ last.outcome = last.base

C3_Witness ==
    /\ last.op = "backup"
    /\ IsRecognised(last.backup_level)
    /\ IsNone(last.backup_prefix)
    /\ last.backup_level # LevelOf(last.backup_level)
    /\ Len(base_calls) = 1
    /\ last.outcome.kind = "return"

\* C9: a backup() call ends in a job handle or in one exception, sends at
\* most one request, hands on what the response processor returned or
\* raised, and leaves the cached properties as they were.
C9_NoRetry ==
    [][last'.op = "backup"
        => /\ cache' = cache
           /\ last'.outcome.kind \in {"return", "raise"}
           /\ Len(transport') <= 1
           /\ IsPrefixedCall' =>
                /\ Len(transport') = 1
                /\ last'.outcome =
                     ProcessBackupResponse(last'.answer.flag,
                                           last'.answer.response)]_vars

\* a prefixed backup that ended in the empty-response error after one
\* request, on a subclient whose cache holds fetched properties
C9_Witness ==
    /\ IsPrefixedCall
    /\ last.outcome = EmptyResponse
    /\ Len(transport) = 1
    /\ S_content \in DOMAIN _subclient_properties

\* ------------------------------------------------ properties: restore
\* C4: on a backupset named "fsbasedbackupset" up to case restore_in_place
\* gets ["/data"] and backupset_flag True whatever the caller passed; on
\* any other backupset it gets backupset_flag False and the caller's list.
C4_FsBasedOverride ==
    last.op = "restore" =>
        /\ Len(restore_calls) = 1
        /\ IF SameIgnoringCase(backupset_name, S_fsbased)
           THEN /\ restore_calls[1].database_list = ListV(<<StrV(S_data)>>)
                /\ restore_calls[1].backupset_flag = TRUE
           ELSE /\ restore_calls[1].database_list = last.database_list
                /\ restore_calls[1].backupset_flag = FALSE

\* the caller's list replaced on a backupset spelled in mixed case
C4_Witness ==
    /\ last.op = "restore"
    /\ backupset_name # S_fsbased
    /\ SameIgnoringCase(backupset_name, S_fsbased)
    /\ last.database_list = ListV(<<StrV(S_mydb)>>)
    /\ restore_calls[1].database_list = ListV(<<StrV(S_data)>>)

\* C5: restore_in_place gets the caller's destination client and instance
\* when given, the owning client's name and the instance's name otherwise,
\* each decided on its own, and the remaining arguments as passed.
C5_Destinations ==
    last.op = "restore" =>
        /\ Len(restore_calls) = 1
        /\ restore_calls[1].dest_client_name =
              (IF last.dest_client_name = NoneV
               THEN StrV(S_client) ELSE last.dest_client_name)
        /\ restore_calls[1].dest_instance_name =
              (IF last.dest_instance_name = NoneV
               THEN StrV(S_instance) ELSE last.dest_instance_name)
        /\ restore_calls[1].backupset_name = StrV(backupset_name)
        /\ restore_calls[1].copy_precedence = last.passed.copy_precedence
        /\ restore_calls[1].from_time = last.passed.from_time
        /\ restore_calls[1].to_time = last.passed.to_time
        /\ restore_calls[1].clone_env = last.passed.clone_env
        /\ restore_calls[1].clone_options = last.passed.clone_options

\* only the client defaulted, the instance given, the rest not the defaults
C5_Witness ==
    /\ last.op = "restore"
    /\ last.dest_client_name = NoneV
    /\ last.dest_instance_name = StrV(S_other)
    /\ last.passed # RestoreDefaults
    /\ restore_calls[1].dest_client_name = StrV(S_client)
    /\ restore_calls[1].dest_instance_name = StrV(S_other)

\* ------------------- two subclients of one instance, restoring at once
Callers == {1, 2}

\* self._subClientEntity of each caller's subclient
SubClientEntityOf(t) == IF t = 1 THEN _subClientEntity ELSE StrV(S_entity2)

\* lines 243-257: the caller resolves its arguments, all of them local
Enter(t) ==
    /\ pc[t] = "idle"
    /\ done[t] < MaxRestores
    /\ \E database_list \in DatabaseListInputs :
         args' = [u \in Callers |->
                    IF u = t
                    THEN [call |-> RestoreInPlaceCall(database_list, NoneV,
                                       NoneV, backupset_name, RestoreDefaults),
                          overlapped |-> \E v \in Callers : pc[v] # "idle"]
                    ELSE IF pc[u] # "idle"
                         THEN [args[u] EXCEPT !.overlapped = TRUE]
                         ELSE args[u]]
    /\ pc' = [pc EXCEPT ![t] = "l259"]
    /\ UNCHANGED <<cache, sites, trace, done>>

\* line 259
SetAssociation(t) ==
    /\ pc[t] = "l259"
    /\ _restore_association' =
           Association(SubClientEntityOf(t), _restore_association)
    /\ pc' = [pc EXCEPT ![t] = "l260"]
    /\ UNCHANGED <<cache, backupset_name, trace, args, done>>

\* lines 260-270: restore_in_place runs and reads the association
CallRestoreInPlace(t) ==
    /\ pc[t] = "l260"
    /\ restore_calls' =
         Append(restore_calls,
                args[t].call @@ [association |-> _restore_association,
                                 caller |-> t,
                                 overlapped |-> args[t].overlapped])
    /\ last' = [op |-> "restore", caller |-> t]
    /\ pc' = [pc EXCEPT ![t] = "idle"]
    /\ done' = [done EXCEPT ![t] = @ + 1]
    /\ UNCHANGED <<cache, sites, built, transport, base_calls, args>>

InitRace ==
    /\ InitObject
    /\ backupset_name \in BackupsetNames
    /\ pc = [t \in Callers |-> "idle"]
    /\ args = [t \in Callers |-> NoneV]
    /\ done = [t \in Callers |-> 0]

NextRace ==
    \E t \in Callers :
        \/ Enter(t)
        \/ SetAssociation(t)
        \/ CallRestoreInPlace(t)

SpecRace == InitRace /\ [][NextRace]_vars

\* C10: a restore_postgres_server call that no other call overlaps has
\* restore_in_place observe the caller's own entity in the association
\* field; with overlapping calls restore_in_place can run for one
\* subclient while the field holds the other's entity.
C10_OwnEntityUnlessOverlapped ==
    \A i \in DOMAIN restore_calls :
        ~restore_calls[i].overlapped =>
            restore_calls[i].association =
                SubClientEntityOf(restore_calls[i].caller)

\* both cases in one run: a call on its own that saw its own entity, and
\* an overlapped call that saw the other subclient's entity
C10_Witness ==
    /\ \E i \in DOMAIN restore_calls :
         /\ ~restore_calls[i].overlapped
         /\ restore_calls[i].association =
                SubClientEntityOf(restore_calls[i].caller)
    /\ \E i \in DOMAIN restore_calls :
         /\ restore_calls[i].overlapped
         /\ restore_calls[i].association # NoneV
         /\ restore_calls[i].association #
                SubClientEntityOf(restore_calls[i].caller)

====
